---- MODULE Spec2Model ----
(***************************************************************************)
(* bufferToggle (src/internal/operators/bufferToggle.ts).                  *)
(*                                                                         *)
(* One subscription to the derived observable.  The three sources (the     *)
(* openings notifier, one closing notifier per opening, the main source)   *)
(* are the environment: each of their notifications is one step, handled   *)
(* to completion (single-threaded synchronous push).  A closing notifier   *)
(* may also notify synchronously inside its own subscribe call; those      *)
(* notifications are part of the openings handler's step.                  *)
(***************************************************************************)
EXTENDS Integers, Sequences, FiniteSets, TLC

\* ---------------------------------------------------------------- bounds
\* MaxOpen: openings values handled in one run; MaxVals: main-source values
\* handled in one run; MaxSync: notifications a closing notifier sends inside
\* its subscribe call; MaxTake: largest number of buffers after which the
\* consumer cancels from inside its handler
MaxOpen == 2
MaxVals == 2
MaxSync == 2
MaxTake == 1

Values == {"a", "b"}
\* error values; each source raises its own, so that the error the consumer
\* gets names the source it came from
MainErrors == {"M1", "M2"}
OpeningsErrors == {"O1", "O2"}
ClosingErrors == {"K1", "K2"}
Terminals == {"complete"} \cup ClosingErrors
Signals == {"next"} \cup Terminals

Nexts(k) == [i \in 1..k |-> "next"]

\* what a closing notifier sends synchronously, before its subscribe call
\* returns: values, then at most one terminal notification
SyncScripts ==
  {Nexts(k) : k \in 0..MaxSync}
    \cup {Append(Nexts(k), t) : k \in 0..(MaxSync - 1), t \in Terminals}

\* ----------------------------------------------------------------- state
VARIABLES
  phase,                \* "openings": line 63 is running; "running": line 90 was reached
  buffers,              \* the array `buffers` (line 60), as buffer identities in order
  buffer,               \* buffer identity -> contents of that array `buffer` (line 67)
  closingSubscription,  \* buffer identity -> closed flag of its closingSubscription (line 71)
  closingSubscriber,    \* buffer identity -> closed flag of the OperatorSubscriber of line 83
  openingsSubscriber,   \* closed flag of the OperatorSubscriber of line 64
  sourceSubscriber,     \* closed flag of the OperatorSubscriber of line 91
  subscriber,           \* closed flag of the downstream subscriber (line 59)
  children,             \* the subscriptions added to the downstream subscriber
  teardowns,            \* how many times the downstream subscriber ran its teardown
  out,                  \* what the downstream consumer has received, in order
  arrived,              \* history: main-source values handled by line 93, in order
  openedAt,             \* history: buffer identity -> Len(arrived) when it was created
  cancelAfter           \* the consumer unsubscribes inside its handler of this many-th
                        \* buffer (0: it never does)

vars == <<phase, buffers, buffer, closingSubscription, closingSubscriber,
          openingsSubscriber, sourceSubscriber, subscriber, children,
          teardowns, out, arrived, openedAt, cancelAfter>>

\* the state as one record, so that a handler is a function from state to state;
\* `reenter` holds the values the consumer sends into the main source from
\* inside its handler of the buffers it gets during the step, one per buffer
Cur ==
  [phase |-> phase, buffers |-> buffers, buffer |-> buffer,
   closingSubscription |-> closingSubscription,
   closingSubscriber |-> closingSubscriber,
   openingsSubscriber |-> openingsSubscriber,
   sourceSubscriber |-> sourceSubscriber, subscriber |-> subscriber,
   children |-> children, teardowns |-> teardowns, out |-> out, arrived |-> arrived, openedAt |-> openedAt,
   cancelAfter |-> cancelAfter, reenter |-> <<>>]

Set(s) ==
  /\ phase' = s.phase
  /\ buffers' = s.buffers
  /\ buffer' = s.buffer
  /\ closingSubscription' = s.closingSubscription
  /\ closingSubscriber' = s.closingSubscriber
  /\ openingsSubscriber' = s.openingsSubscriber
  /\ sourceSubscriber' = s.sourceSubscriber
  /\ subscriber' = s.subscriber
  /\ children' = s.children
  /\ teardowns' = s.teardowns
  /\ out' = s.out
  /\ arrived' = s.arrived
  /\ openedAt' = s.openedAt
  /\ cancelAfter' = s.cancelAfter

\* --------------------------------------------------------------- helpers
Range(q) == {q[i] : i \in DOMAIN q}
Last(q) == q[Len(q)]

Note(type, id, vals, err, at) ==
  [type |-> type, id |-> id, vals |-> vals, err |-> err, at |-> at]

NextsIn(q) == {i \in DOMAIN q : q[i].type = "next"}
TerminalsIn(q) == {i \in DOMAIN q : q[i].type \in {"complete", "error"}}

\* arrRemove(arr, item): splice out the first occurrence, if any
arrRemove(arr, item) ==
  IF item \notin Range(arr) THEN arr
  ELSE LET i == CHOOSE k \in DOMAIN arr :
                  arr[k] = item /\ \A j \in 1..(k - 1) : arr[j] # item
       IN  SubSeq(arr, 1, i - 1) \o SubSeq(arr, i + 1, Len(arr))

\* ---------------------------------------------- main source: next handler
\* variant: the value is pushed to every buffer ever created
sourceNextEveryBuffer(s, v) ==
  IF s.sourceSubscriber THEN s
  ELSE [s EXCEPT !.buffer = [i \in DOMAIN @ |-> Append(@[i], v)],
                 !.arrived = Append(@, v)]

\* next handler (lines 93-98)
sourceNext(s, v) ==
  IF s.sourceSubscriber THEN s
  ELSE [s EXCEPT !.buffer = [i \in DOMAIN @ |->
                               IF i \in Range(s.buffers) THEN Append(@[i], v)
                               ELSE @[i]],
                 !.arrived = Append(@, v)]

\* the consumer, inside its handler, sends the next value of `reenter` into
\* the main source, which hands it to the next handler of line 93
consumerReenters(s) ==
  IF s.reenter = <<>> THEN s
  ELSE sourceNext([s EXCEPT !.reenter = Tail(@)], Head(s.reenter))

\* ------------------------------------------------ the downstream subscriber
\* the subscriptions that can be children of the downstream subscriber: the
\* OperatorSubscribers of lines 64 and 91, and the closing OperatorSubscriber
\* (line 83) of a buffer
OpeningsChild == <<"openings", 0>>
SourceChild == <<"source", 0>>
ClosingChild(b) == <<"closing", b>>

\* closes the children of the downstream subscriber
CloseChildren(s) ==
  [s EXCEPT !.openingsSubscriber = @ \/ OpeningsChild \in s.children,
            !.sourceSubscriber = @ \/ SourceChild \in s.children,
            !.closingSubscriber =
               [i \in DOMAIN @ |-> @[i] \/ ClosingChild(i) \in s.children]]

\* variant: the teardown closes the children but leaves the subscriber open
SubscriberUnsubscribeStaysOpen(s) == CloseChildren(s)

\* variant: no closed check, every call tears down again
SubscriberUnsubscribeAgain(s) ==
  CloseChildren([s EXCEPT !.subscriber = TRUE, !.teardowns = @ + 1])

\* Subscriber.unsubscribe(): closes the subscriber and every child added to it.
\* closingSubscription objects are never added to it (line 71).
SubscriberUnsubscribe(s) ==
  IF s.subscriber THEN s
  ELSE CloseChildren([s EXCEPT !.subscriber = TRUE, !.teardowns = @ + 1])

\* subscriber.next(buffer): dropped once stopped; the consumer may send a
\* value into the main source and may unsubscribe from inside its handler
SubscriberNext(s, b) ==
  IF s.subscriber THEN s
  ELSE LET s1 == [s EXCEPT !.out =
                     Append(@, Note("next", b, s.buffer[b], "", Len(s.arrived)))]
           s2 == consumerReenters(s1)
       IN  IF Cardinality(NextsIn(s2.out)) = s.cancelAfter
           THEN SubscriberUnsubscribe(s2)
           ELSE s2

\* subscriber.error(err): first terminal notification wins, then teardown
SubscriberError(s, e) ==
  IF s.subscriber THEN s
  ELSE SubscriberUnsubscribe(
         [s EXCEPT !.out = Append(@, Note("error", 0, <<>>, e, Len(s.arrived)))])

\* subscriber.complete()
SubscriberComplete(s) ==
  IF s.subscriber THEN s
  ELSE SubscriberUnsubscribe(
         [s EXCEPT !.out = Append(@, Note("complete", 0, <<>>, "", Len(s.arrived)))])

\* ------------------------------------------------------ closing notifier
\* closingSubscription.unsubscribe() (line 79).  `added` tells whether line 83's
\* add() has already run, that is whether the closing subscriber is its child.
closingSubscriptionUnsubscribe(s, b, added) ==
  IF s.closingSubscription[b] THEN s
  ELSE [s EXCEPT !.closingSubscription[b] = TRUE,
                 !.closingSubscriber[b] = IF added THEN TRUE ELSE @]

\* variant: line 79 is missing, the closing subscription is left open
emitKeepsSubscription(s, b, added) ==
  SubscriberNext([s EXCEPT !.buffers = arrRemove(@, b)], b)

\* variant: the buffer is handed to the consumer before it is removed
emitNextFirst(s, b, added) ==
  LET s1 == SubscriberNext(s, b)
      s2 == [s1 EXCEPT !.buffers = arrRemove(@, b)]
  IN  closingSubscriptionUnsubscribe(s2, b, added)

\* variant: shift() in place of arrRemove(buffers, buffer)
emitShift(s, b, added) ==
  LET s1 == [s EXCEPT !.buffers = IF @ = <<>> THEN @ ELSE Tail(@)]
      s2 == SubscriberNext(s1, b)
  IN  closingSubscriptionUnsubscribe(s2, b, added)

\* emit (lines 76-80)
emit(s, b, added) ==
  LET s1 == [s EXCEPT !.buffers = arrRemove(@, b)]
      s2 == SubscriberNext(s1, b)
  IN  closingSubscriptionUnsubscribe(s2, b, added)

\* the closing OperatorSubscriber (line 83): next -> emit, complete -> emit,
\* error -> default, forwarded to the destination
\* variant: the completion of a closing notifier is forwarded to the consumer
\* (no complete handler given to the OperatorSubscriber)
closingCompleteForwarded(s, b, added) ==
  IF s.closingSubscriber[b] THEN s
  ELSE SubscriberComplete([s EXCEPT !.closingSubscriber[b] = TRUE])

\* variant: noop as the complete handler of the closing OperatorSubscriber
closingCompleteNoop(s, b, added) ==
  IF s.closingSubscriber[b] THEN s
  ELSE [s EXCEPT !.closingSubscriber[b] = TRUE]

\* variant: the error of a closing notifier only ends that notifier
closingErrorSwallowed(s, b, e) ==
  IF s.closingSubscriber[b] THEN s
  ELSE [s EXCEPT !.closingSubscriber[b] = TRUE]

closingNext(s, b, added) ==
  IF s.closingSubscriber[b] THEN s ELSE emit(s, b, added)

closingComplete(s, b, added) ==
  IF s.closingSubscriber[b] THEN s
  ELSE [emit(s, b, added) EXCEPT !.closingSubscriber[b] = TRUE]

closingError(s, b, e) ==
  IF s.closingSubscriber[b] THEN s
  ELSE SubscriberError([s EXCEPT !.closingSubscriber[b] = TRUE], e)

closingSignal(s, b, sig, added) ==
  CASE sig = "next" -> closingNext(s, b, added)
    [] sig = "complete" -> closingComplete(s, b, added)
    [] sig \in ClosingErrors -> closingError(s, b, sig)

\* from(closingSelector(openValue)).subscribe(...): the notifications sent
\* before subscribe returns, in order
RECURSIVE subscribeClosing(_, _, _)
subscribeClosing(s, b, script) ==
  IF script = <<>> THEN s
  ELSE subscribeClosing(closingSignal(s, b, Head(script), FALSE), b, Tail(script))

\* closingSubscription.add(inner) (line 83): an already closed parent closes
\* the added child at once
closingSubscriptionAdd(s, b) ==
  IF s.closingSubscription[b]
  THEN [s EXCEPT !.closingSubscriber[b] = TRUE]
  ELSE s

\* ------------------------------------------------------ openings notifier
\* variant: the closing OperatorSubscriber is not made a child of the
\* downstream subscriber
openingsNextDetached(s, script) ==
  IF s.openingsSubscriber THEN s
  ELSE LET b == Len(s.buffer) + 1
           s1 == [s EXCEPT !.buffers = Append(@, b),
                           !.buffer = Append(@, <<>>),
                           !.openedAt = Append(@, Len(s.arrived)),
                           !.closingSubscription = Append(@, FALSE),
                           !.closingSubscriber = Append(@, FALSE)]
       IN  closingSubscriptionAdd(subscribeClosing(s1, b, script), b)

\* variant: no buffer is opened while another one is live
openingsNextSingle(s, script) ==
  IF s.openingsSubscriber \/ s.buffers # <<>> THEN s
  ELSE LET b == Len(s.buffer) + 1
           s1 == [s EXCEPT !.buffers = Append(@, b),
                           !.buffer = Append(@, <<>>),
                           !.openedAt = Append(@, Len(s.arrived)),
                           !.closingSubscription = Append(@, FALSE),
                           !.closingSubscriber = Append(@, s.subscriber),
                           !.children = @ \cup {ClosingChild(b)}]
       IN  closingSubscriptionAdd(subscribeClosing(s1, b, script), b)

\* variant: the completion of the openings notifier is forwarded to the
\* consumer (no complete handler given to the OperatorSubscriber)
openingsCompleteForwarded(s) ==
  IF s.openingsSubscriber THEN s
  ELSE SubscriberComplete([s EXCEPT !.openingsSubscriber = TRUE])

\* next handler of the openings OperatorSubscriber (lines 66-84)
openingsNext(s, script) ==
  IF s.openingsSubscriber THEN s
  ELSE LET b == Len(s.buffer) + 1
           s1 == [s EXCEPT !.buffers = Append(@, b),
                           !.buffer = Append(@, <<>>),
                           !.openedAt = Append(@, Len(s.arrived)),
                           !.closingSubscription = Append(@, FALSE),
                           !.closingSubscriber = Append(@, s.subscriber),
                           !.children = @ \cup {ClosingChild(b)}]
       IN  closingSubscriptionAdd(subscribeClosing(s1, b, script), b)

\* error handler: undefined (line 85), so the default: forward to the destination
openingsError(s, e) ==
  IF s.openingsSubscriber THEN s
  ELSE SubscriberError([s EXCEPT !.openingsSubscriber = TRUE], e)

\* complete handler: noop (line 86), then the subscriber unsubscribes itself
openingsComplete(s) ==
  IF s.openingsSubscriber THEN s
  ELSE [s EXCEPT !.openingsSubscriber = TRUE]

\* ----------------------------------------------------------- main source
\* variant: pop() in place of shift()
RECURSIVE flushAllPop(_)
flushAllPop(s) ==
  IF Len(s.buffers) = 0 THEN s
  ELSE flushAllPop(SubscriberNext(
         [s EXCEPT !.buffers = SubSeq(@, 1, Len(@) - 1)], Last(s.buffers)))

\* the loop of lines 102-104
RECURSIVE flushAll(_)
flushAll(s) ==
  IF Len(s.buffers) = 0 THEN s
  ELSE flushAll(SubscriberNext([s EXCEPT !.buffers = Tail(@)], Head(s.buffers)))

\* variant: the pending buffers are flushed before the error is forwarded
sourceErrorFlushes(s, e) ==
  IF s.sourceSubscriber THEN s
  ELSE SubscriberError(flushAll([s EXCEPT !.sourceSubscriber = TRUE]), e)

\* error handler: undefined (line 99)
sourceError(s, e) ==
  IF s.sourceSubscriber THEN s
  ELSE SubscriberError([s EXCEPT !.sourceSubscriber = TRUE], e)

\* variant: the completion is forwarded without the flush
sourceCompleteNoFlush(s) ==
  IF s.sourceSubscriber THEN s
  ELSE SubscriberComplete([s EXCEPT !.sourceSubscriber = TRUE])

\* complete handler (lines 100-106)
sourceComplete(s) ==
  IF s.sourceSubscriber THEN s
  ELSE SubscriberComplete(flushAll([s EXCEPT !.sourceSubscriber = TRUE]))

\* --------------------------------------------------------------- actions
Init ==
  /\ phase = "openings"
  /\ buffers = <<>>
  /\ buffer = <<>>
  /\ closingSubscription = <<>>
  /\ closingSubscriber = <<>>
  /\ openingsSubscriber = FALSE
  /\ sourceSubscriber = FALSE
  /\ subscriber = FALSE
  /\ children = {OpeningsChild}
  /\ teardowns = 0
  /\ out = <<>>
  /\ arrived = <<>>
  /\ openedAt = <<>>
  /\ cancelAfter \in 0..MaxTake

\* variant: the main source is subscribed before the openings notifier
FirstSubscribedSource == "source"

\* lines 62-63: the openings notifier is subscribed first; the main source is
\* subscribed (line 90) when from(openings).subscribe(...) has returned
FirstSubscribed == "openings"

\* this source can notify: its subscribe call has begun
Subscribed(who) == IF who = FirstSubscribed THEN TRUE ELSE phase = "running"

\* A notification to a closed subscriber returns at once and changes nothing
\* (the first line of every handler above), so the steps below are those of a
\* subscriber that is not closed.

\* the openings notifier sends a value; the closing notifier it selects sends
\* `script` inside its subscribe call
OpeningsNext ==
  \E script \in SyncScripts :
    /\ Subscribed("openings")
    /\ ~openingsSubscriber
    /\ Len(buffer) < MaxOpen
    /\ Set(openingsNext(Cur, script))

OpeningsError ==
  \E e \in OpeningsErrors :
    /\ Subscribed("openings")
    /\ ~openingsSubscriber
    /\ Set(openingsError(Cur, e))

OpeningsComplete ==
  /\ Subscribed("openings")
  /\ ~openingsSubscriber
  /\ Set(openingsComplete(Cur))

\* line 90: the main source is subscribed once from(openings).subscribe returned;
\* its OperatorSubscriber is added to the downstream subscriber, which closes it
\* at once when it is already closed
SubscribeSource ==
  /\ phase = "openings"
  /\ Set([Cur EXCEPT !.phase = "running",
                      !.sourceSubscriber = subscriber,
                      !.children = @ \cup {SourceChild}])

SourceNext ==
  \E v \in Values :
    /\ Subscribed("source")
    /\ ~sourceSubscriber
    /\ Len(arrived) < MaxVals
    /\ Set(sourceNext(Cur, v))

SourceError ==
  \E e \in MainErrors :
    /\ Subscribed("source")
    /\ ~sourceSubscriber
    /\ Set(sourceError(Cur, e))

SourceComplete ==
  /\ Subscribed("source")
  /\ ~sourceSubscriber
  /\ Set(sourceComplete(Cur))

\* a closing notifier notifies after its subscribe call returned
ClosingNext ==
  \E b \in DOMAIN buffer :
    ~closingSubscriber[b] /\ Set(closingNext(Cur, b, TRUE))

ClosingComplete ==
  \E b \in DOMAIN buffer :
    ~closingSubscriber[b] /\ Set(closingComplete(Cur, b, TRUE))

ClosingError ==
  \E b \in DOMAIN buffer, e \in ClosingErrors :
    ~closingSubscriber[b] /\ Set(closingError(Cur, b, e))

\* the values the consumer sends when it re-enters; which value it sends does
\* not change what the operator does with it, so one is enough
ReentrantValues == {"a"}

\* the state at the start of a step in which the consumer, inside its handler
\* of the first buffer it gets, sends v into the main source
Reentering(v) == [Cur EXCEPT !.reenter = <<v>>]

\* a closing notifier flushes its buffer and the consumer re-enters
ClosingFlushReentrant ==
  \E b \in DOMAIN buffer, v \in ReentrantValues, sig \in {"next", "complete"} :
    /\ phase = "running"
    /\ Len(arrived) < MaxVals
    /\ ~closingSubscriber[b]
    /\ Set(closingSignal(Reentering(v), b, sig, TRUE))

\* a closing notifier flushes the new buffer inside its subscribe call and the
\* consumer re-enters
OpeningsNextReentrant ==
  \E script \in SyncScripts, v \in ReentrantValues :
    /\ phase = "running"
    /\ Len(arrived) < MaxVals
    /\ Len(buffer) < MaxOpen
    /\ ~openingsSubscriber
    /\ script # <<>>
    /\ Head(script) \in {"next", "complete"}
    /\ Set(openingsNext(Reentering(v), script))

\* the main source completes and the consumer re-enters during the flush
SourceCompleteReentrant ==
  \E v \in ReentrantValues :
    /\ phase = "running"
    /\ Len(arrived) < MaxVals
    /\ buffers # <<>>
    /\ ~sourceSubscriber
    /\ Set(sourceComplete(Reentering(v)))

\* the consumer closes the subscription it got from subscribe, as often as it
\* likes
Unsubscribe == phase = "running" /\ Set(SubscriberUnsubscribe(Cur))

Next ==
  \/ OpeningsNext
  \/ OpeningsError
  \/ OpeningsComplete
  \/ SubscribeSource
  \/ SourceNext
  \/ SourceError
  \/ SourceComplete
  \/ ClosingNext
  \/ ClosingComplete
  \/ ClosingError
  \/ ClosingFlushReentrant
  \/ OpeningsNextReentrant
  \/ SourceCompleteReentrant
  \/ Unsubscribe

Spec == Init /\ [][Next]_vars

\* ------------------------------------------------------------ properties
Received == Cardinality(NextsIn(out))
Emitted == {out[i].id : i \in NextsIn(out)}

\* the notification that hands buffer b to the consumer in the current state
Flushed(b) == Note("next", b, buffer[b], "", Len(arrived))
Completion == Note("complete", 0, <<>>, "", Len(arrived))
Failure(e) == Note("error", 0, <<>>, e, Len(arrived))

\* the number of main-source values handled when buffer b left the live-buffer
\* set: the moment of the first notification that handed it to the consumer
RemovedAt(b) ==
  LET first == CHOOSE i \in NextsIn(out) :
                 /\ out[i].id = b
                 /\ \A j \in NextsIn(out) : out[j].id = b => i <= j
  IN  out[first].at

\* the consumer unsubscribes from inside its handler within the next n buffers
CancelsWithin(n) == cancelAfter > Received /\ cancelAfter - Received <= n

\* C1 (P2, single flush): no buffer is handed to the consumer more than once,
\* the closing notifier that notifies twice inside its subscribe call included.
SingleFlush ==
  \A i, j \in NextsIn(out) : out[i].id = out[j].id => i = j

\* C2 (P1, fan-out): a live buffer holds exactly the main-source values that
\* arrived since it was opened, in arrival order, and an emitted buffer exactly
\* those that arrived between its opening and its flush, the moment it left the
\* live-buffer set; it never changes later.
FanOut ==
  /\ \A b \in Range(buffers) :
       buffer[b] = SubSeq(arrived, openedAt[b] + 1, Len(arrived))
  /\ \A i \in NextsIn(out) :
       /\ out[i].vals =
            SubSeq(arrived, openedAt[out[i].id] + 1, RemovedAt(out[i].id))
       /\ buffer[out[i].id] = out[i].vals

\* a buffer was emitted with one value, while another value arrived outside
\* its window
FanOutWitness ==
  \E i \in NextsIn(out) : Len(out[i].vals) = 1 /\ Len(arrived) = 2

\* C3 (P3, FIFO completion flush): a completion of the main source handled
\* with buffers B1..Bn live hands B1, ..., Bn, then the completion, to the
\* consumer; a consumer that unsubscribes inside its handler of Bk gets B1..Bk.
FifoCompletionFlush ==
  [][(phase = "running" /\ ~sourceSubscriber /\ Set(sourceComplete(Cur))) =>
      LET all == [i \in 1..Len(buffers) |-> Flushed(buffers[i])]
      IN  IF CancelsWithin(Len(buffers))
          THEN out' = out \o SubSeq(all, 1, cancelAfter - Received)
          ELSE out' = (out \o all) \o <<Completion>>]_vars

\* two buffers opened in order were flushed by the completion, in that order
FifoCompletionFlushWitness ==
  /\ Len(buffer) = 2
  /\ Len(out) >= 3
  /\ ~closingSubscription[1]
  /\ ~closingSubscription[2]
  /\ Last(out).type = "complete"
  /\ out[Len(out) - 1] = Flushed(2)
  /\ out[Len(out) - 2] = Flushed(1)
  /\ Len(buffer[1]) > Len(buffer[2])

\* in state s whatever a subscribed source sends is dropped: no handler
\* changes anything
NothingHandled(s) ==
  /\ s.phase = "running" =>
       /\ \A v \in Values : sourceNext(s, v) = s
       /\ \A e \in MainErrors : sourceError(s, e) = s
       /\ sourceComplete(s) = s
  /\ \A script \in SyncScripts : openingsNext(s, script) = s
  /\ \A e \in OpeningsErrors : openingsError(s, e) = s
  /\ openingsComplete(s) = s
  /\ \A b \in DOMAIN s.buffer :
       /\ closingNext(s, b, TRUE) = s
       /\ closingComplete(s, b, TRUE) = s
       /\ \A e \in ClosingErrors : closingError(s, b, e) = s

\* C4 (P4, first terminal signal wins): the consumer gets at most one terminal
\* notification, and nothing after it, whatever the sources send then.
FirstTerminalWins ==
  /\ Cardinality(TerminalsIn(out)) <= 1
  /\ \A i \in TerminalsIn(out) : i = Len(out)
  /\ TerminalsIn(out) # {} => NothingHandled(Cur)

\* an error ended the run while buffers were live and another source was
\* still to notify
FirstTerminalWinsWitness ==
  /\ out # <<>>
  /\ Last(out).type = "error"
  /\ Len(out) >= 2
  /\ buffers # <<>>

\* what C5 compares: the consumer's log, the live buffers, the open closing
\* subscriptions
Effect(s) ==
  <<s.out, s.buffers, {b \in DOMAIN s.closingSubscriber : ~s.closingSubscriber[b]}>>

\* C5 (P5, closing completion = closing emission): a closing notifier that
\* sends one value, and then completes or not, leaves the same log, live
\* buffers and open closing subscriptions as one that completes at that point
\* without a value, be it inside its subscribe call or later.
ClosingCompletionAsEmission ==
  [][/\ \A b \in DOMAIN buffer :
          (~closingSubscriber[b] /\ Set(closingNext(Cur, b, TRUE))) =>
             Effect(Cur') = Effect(closingComplete(Cur, b, TRUE))
     /\ \A script \in {<<"next">>, <<"next", "complete">>} :
          ( /\ ~openingsSubscriber
            /\ Len(buffer) < MaxOpen
            /\ Set(openingsNext(Cur, script)) ) =>
             Effect(Cur') = Effect(openingsNext(Cur, <<"complete">>))]_vars

AllClosed(s) ==
  /\ s.subscriber
  /\ s.openingsSubscriber
  /\ s.phase = "running" => s.sourceSubscriber
  /\ \A b \in DOMAIN s.closingSubscriber : s.closingSubscriber[b]

\* once the consumer got an error, it gets nothing more
NothingAfterError ==
  (out # <<>> /\ Last(out).type = "error") => out' = out

\* C6: an error of a closing notifier, sent inside its subscribe call or later,
\* reaches the consumer as the terminal error; no buffer is emitted with it or
\* after it, the live buffers stay where they are, every subscription is closed.
ClosingErrorIsTerminal ==
  [][/\ \A b \in DOMAIN buffer, e \in ClosingErrors :
          (~closingSubscriber[b] /\ Set(closingError(Cur, b, e))) =>
             /\ out' = Append(out, Failure(e))
             /\ buffers' = buffers
             /\ AllClosed(Cur')
     /\ \A e \in ClosingErrors :
          ( /\ ~openingsSubscriber
            /\ Len(buffer) < MaxOpen
            /\ Set(openingsNext(Cur, <<e>>)) ) =>
             /\ out' = Append(out, Failure(e))
             /\ buffers' = Append(buffers, Len(buffer) + 1)
             /\ AllClosed(Cur')
     /\ NothingAfterError]_vars

\* a closing notifier's error ended the run with both buffers pending, none
\* of them emitted
ClosingErrorIsTerminalWitness ==
  /\ out # <<>>
  /\ Last(out).type = "error"
  /\ Last(out).err \in ClosingErrors
  /\ buffers = <<1, 2>>
  /\ Emitted = {}
  /\ arrived # <<>>

\* C7: an error of the main source or of the openings notifier reaches the
\* consumer unchanged as the terminal error; the live buffers are not emitted,
\* with it or after it.
SourceErrorIsTerminal ==
  [][/\ \A e \in MainErrors :
          (phase = "running" /\ ~sourceSubscriber /\ Set(sourceError(Cur, e))) =>
             /\ out' = Append(out, Failure(e))
             /\ buffers' = buffers
             /\ AllClosed(Cur')
     /\ \A e \in OpeningsErrors :
          (~openingsSubscriber /\ Set(openingsError(Cur, e))) =>
             /\ out' = Append(out, Failure(e))
             /\ buffers' = buffers
             /\ AllClosed(Cur')
     /\ NothingAfterError]_vars

\* the main source's error ended the run with a filled buffer pending
SourceErrorIsTerminalWitness ==
  /\ out # <<>>
  /\ Last(out).type = "error"
  /\ Last(out).err \in MainErrors
  /\ buffers # <<>>
  /\ buffer[Head(buffers)] # <<>>
  /\ Head(buffers) \notin Emitted

\* the state, the openings subscriber's flag apart
Rest(s) == [s EXCEPT !.openingsSubscriber = TRUE]
Reopened == [Cur EXCEPT !.openingsSubscriber = FALSE]

\* C8: the completion of the openings notifier closes the openings subscriber
\* and changes nothing else; after it no buffer is opened, and the main source
\* and the closing notifiers act on the buffers as if it had not completed.
OpeningsCompletionSwallowed ==
  [][/\ (~openingsSubscriber /\ Set(openingsComplete(Cur))) =>
          /\ openingsSubscriber'
          /\ UNCHANGED <<phase, buffers, buffer, closingSubscription,
                         closingSubscriber, sourceSubscriber, subscriber,
                         children, teardowns, out, arrived, openedAt,
                         cancelAfter>>
     /\ openingsSubscriber => (openingsSubscriber' /\ Len(buffer') = Len(buffer))
     /\ (openingsSubscriber /\ ~subscriber) =>
          /\ \A v \in Values : sourceNext(Cur, v) = Rest(sourceNext(Reopened, v))
          /\ sourceComplete(Cur) = Rest(sourceComplete(Reopened))
          /\ \A b \in DOMAIN buffer :
               /\ closingNext(Cur, b, TRUE) = Rest(closingNext(Reopened, b, TRUE))
               /\ closingComplete(Cur, b, TRUE)
                    = Rest(closingComplete(Reopened, b, TRUE))]_vars

\* after the openings notifier completed, a live buffer got a main-source
\* value and was flushed by its closing notifier, the operator still active
OpeningsCompletionSwallowedWitness ==
  /\ openingsSubscriber
  /\ ~subscriber
  /\ Len(buffer) = 1
  /\ out = <<Flushed(1)>>
  /\ buffer[1] # <<>>
  /\ phase = "running"
  /\ ~sourceSubscriber

Completed(q) == \E i \in DOMAIN q : q[i].type = "complete"

\* C9: the consumer gets a completion only in the step that handles the main
\* source's completion, and every such step ends with the completion, after the
\* flush of every live buffer (short of a consumer that unsubscribes in between).
CompletesWithMainSource ==
  [][/\ (Completed(out') /\ ~Completed(out)) =>
          (phase = "running" /\ ~sourceSubscriber /\ Set(sourceComplete(Cur)))
     /\ ( /\ phase = "running"
          /\ ~sourceSubscriber
          /\ Set(sourceComplete(Cur))
          /\ ~CancelsWithin(Len(buffers)) ) =>
          /\ Last(out').type = "complete"
          /\ Len(out') = Len(out) + Len(buffers) + 1
          /\ buffers' = <<>>]_vars

\* the run completed after one buffer was flushed by its closing notifier's
\* completion and the other by the main source's
CompletesWithMainSourceWitness ==
  /\ Len(buffer) = 2
  /\ Len(out) = 3
  /\ Last(out).type = "complete"
  /\ closingSubscription[1]
  /\ ~closingSubscription[2]
  /\ openingsSubscriber

\* C10: the consumer's unsubscribe closes the main, the openings and every
\* closing subscription in the same step, emits nothing and leaves the buffers;
\* once the downstream subscriber is closed the consumer gets nothing more,
\* whatever the sources send. The same holds of a consumer that unsubscribes
\* inside its handler.
CancellationSilences ==
  [][/\ (phase = "running" /\ ~subscriber /\ Set(SubscriberUnsubscribe(Cur))) =>
          /\ AllClosed(Cur')
          /\ out' = out
          /\ buffers' = buffers
     /\ subscriber => (subscriber' /\ out' = out)
     /\ (~subscriber /\ subscriber' /\ TerminalsIn(out') = {}) =>
          NothingHandled(Cur')
     /\ (cancelAfter > 0 /\ Received < cancelAfter /\ cancelAfter <= Cardinality(NextsIn(out'))) =>
          /\ Cardinality(NextsIn(out')) = cancelAfter
          /\ Last(out').type = "next"
          /\ AllClosed(Cur')]_vars

\* the consumer unsubscribed, nothing terminal was sent, buffers with values
\* are still in the array
CancellationSilencesWitness ==
  /\ subscriber
  /\ cancelAfter = 0
  /\ TerminalsIn(out) = {}
  /\ Len(buffers) = 2
  /\ buffer[1] # <<>>

\* the step is the openings handler run with this script of the closing notifier
Opens(script) ==
  /\ ~openingsSubscriber
  /\ Len(buffer) < MaxOpen
  /\ Set(openingsNext(Cur, script))

\* the step is a closing notifier's value or completion for buffer b, handled
\* after its subscribe call returned
Closes(b) ==
  /\ ~closingSubscriber[b]
  /\ \/ Set(closingNext(Cur, b, TRUE))
     \/ Set(closingComplete(Cur, b, TRUE))

Without(q, x) == SelectSeq(q, LAMBDA y : y # x)

\* C11: when the closing notifier sends a value or completes inside its
\* subscribe call, then at the return of the openings handler the new buffer is
\* not in the array, the consumer got it as an empty array, and both the
\* closing subscription and the subscriber of the closing notifier are closed.
SynchronousClosingIsSafe ==
  [][\A script \in SyncScripts :
       (script # <<>> /\ Head(script) \in {"next", "complete"} /\ Opens(script)) =>
          LET b == Len(buffer) + 1
          IN  /\ Len(buffer') = b
              /\ b \notin Range(buffers')
              /\ buffers' = buffers
              /\ Len(out') > Len(out)
              /\ out'[Len(out) + 1] = Note("next", b, <<>>, "", Len(arrived))
              /\ closingSubscription'[b]
              /\ closingSubscriber'[b]]_vars

\* the second buffer was flushed empty as it was opened, the first one, with a
\* value in it, is still collecting and the operator is active
SynchronousClosingIsSafeWitness ==
  /\ Len(buffer) = 2
  /\ buffers = <<1>>
  /\ buffer[1] # <<>>
  /\ out = <<Note("next", 2, <<>>, "", openedAt[2])>>
  /\ closingSubscription = <<FALSE, TRUE>>
  /\ closingSubscriber = <<FALSE, TRUE>>
  /\ ~subscriber

\* C12: a flush by the closing notifier of buffer b emits b alone, removes b
\* alone from the array, the others keeping their order and contents, and
\* closes the closing subscription of b alone (the consumer not unsubscribing
\* inside its handler).
PerBufferIsolation ==
  [][/\ \A b \in DOMAIN buffer :
          (Closes(b) /\ ~CancelsWithin(1)) =>
             /\ out' = Append(out, Flushed(b))
             /\ buffers' = Without(buffers, b)
             /\ buffer' = buffer
             /\ \A c \in DOMAIN buffer \ {b} :
                  /\ closingSubscription'[c] = closingSubscription[c]
                  /\ closingSubscriber'[c] = closingSubscriber[c]
             /\ closingSubscription'[b]
             /\ closingSubscriber'[b]
     /\ \A script \in {<<"next">>, <<"complete">>} :
          (Opens(script) /\ ~CancelsWithin(1)) =>
             /\ buffers' = buffers
             /\ \A c \in DOMAIN buffer :
                  /\ buffer'[c] = buffer[c]
                  /\ closingSubscription'[c] = closingSubscription[c]
                  /\ closingSubscriber'[c] = closingSubscriber[c]]_vars

\* the first of two filled buffers was flushed by its closing notifier; the
\* second is still in the array with its closing subscription open
PerBufferIsolationWitness ==
  /\ Len(buffer) = 2
  /\ buffers = <<2>>
  /\ out # <<>>
  /\ Last(out) = Note("next", 1, buffer[1], "", 1)
  /\ buffer[2] # <<>>
  /\ Len(arrived) = 2
  /\ closingSubscription = <<TRUE, FALSE>>
  /\ closingSubscriber = <<TRUE, FALSE>>
  /\ ~subscriber

\* C13: every openings value handled while the openings subscriber is open
\* creates one new empty buffer with its own closing subscription, whatever
\* buffers are live; with a closing notifier silent during subscribe it is
\* appended at the end of the array; the buffers there before keep their
\* place, contents and closing subscriptions, and nothing is emitted.
EveryOpeningOpensABuffer ==
  ~openingsSubscriber =>
    /\ \A script \in SyncScripts :
         LET s == openingsNext(Cur, script)
         IN  /\ Len(s.buffer) = Len(buffer) + 1
             /\ s.buffer[Len(buffer) + 1] = <<>>
             /\ s.openedAt[Len(buffer) + 1] = Len(arrived)
             /\ SubSeq(s.buffer, 1, Len(buffer)) = buffer
             /\ SubSeq(s.buffers, 1, Len(buffers)) = buffers
             /\ SubSeq(s.closingSubscription, 1, Len(buffer)) = closingSubscription
    /\ LET s == openingsNext(Cur, <<>>)
       IN  /\ s.buffers = Append(buffers, Len(buffer) + 1)
           /\ s.closingSubscription = Append(closingSubscription, FALSE)
           /\ s.closingSubscriber = Append(closingSubscriber, FALSE)
           /\ s.out = out

\* two buffers are live at once, the older one with values in it, the newer
\* one empty, each with its closing subscription open
EveryOpeningOpensABufferWitness ==
  /\ buffers = <<1, 2>>
  /\ Len(buffer[1]) = 2
  /\ buffer[2] = <<>>
  /\ closingSubscriber = <<FALSE, FALSE>>
  /\ closingSubscription = <<FALSE, FALSE>>
  /\ ~subscriber

\* C14: no main-source value is handled before from(openings).subscribe has
\* returned, so a buffer opened during that call (no value had arrived when it
\* was opened) holds, while live, every main-source value handled so far, and
\* when emitted every value handled up to its flush.
OpeningsSubscribedFirst ==
  /\ phase = "openings" => arrived = <<>>
  /\ \A b \in Range(buffers) : openedAt[b] = 0 => buffer[b] = arrived
  /\ \A i \in NextsIn(out) :
       openedAt[out[i].id] = 0 =>
         out[i].vals = SubSeq(arrived, 1, RemovedAt(out[i].id))

\* the main source is subscribed and the buffer opened before any value holds
\* all the values it sent
OpeningsSubscribedFirstWitness ==
  /\ phase = "running"
  /\ buffers = <<1>>
  /\ openedAt = <<0>>
  /\ Len(arrived) = 2
  /\ buffer[1] = arrived
  /\ out = <<>>

\* C15: unsubscribe is idempotent. The downstream subscriber runs its teardown
\* once; its first unsubscribe closes it and every child, the children already
\* closed (a closing subscriber closed by its own flush) being left as they
\* are; a second unsubscribe changes nothing. The same holds of a buffer's
\* closingSubscription, which emit may unsubscribe twice.
CloseIsIdempotent ==
  /\ teardowns = (IF subscriber THEN 1 ELSE 0)
  /\ subscriber => SubscriberUnsubscribe(Cur) = Cur
  /\ LET s == SubscriberUnsubscribe(Cur)
     IN  /\ AllClosed(s)
         /\ s.teardowns = 1
         /\ s.closingSubscription = closingSubscription
         /\ s.out = out
         /\ SubscriberUnsubscribe(s) = s
  /\ \A b \in DOMAIN buffer, added \in BOOLEAN :
       LET s == closingSubscriptionUnsubscribe(Cur, b, added)
       IN  /\ s.closingSubscription[b]
           /\ closingSubscription[b] => s = Cur
           /\ closingSubscriptionUnsubscribe(s, b, added) = s

\* the consumer unsubscribed after the first buffer's closing subscription had
\* been closed by its own flush
CloseIsIdempotentWitness ==
  /\ subscriber
  /\ teardowns = 1
  /\ cancelAfter = 0
  /\ TerminalsIn(out) = {}
  /\ Len(buffer) = 2
  /\ buffers = <<2>>
  /\ closingSubscription = <<TRUE, FALSE>>
  /\ closingSubscriber = <<TRUE, TRUE>>

\* C16: a buffer handed to the consumer is not in the array, and its contents
\* are, and stay, those the consumer was given: a value the consumer sends into
\* the main source from inside its handler, or that arrives later, is not
\* appended to it.
RemovalPrecedesEmission ==
  \A i \in NextsIn(out) :
    /\ out[i].id \notin Range(buffers)
    /\ buffer[out[i].id] = out[i].vals
    /\ Len(out[i].vals) <= out[i].at - openedAt[out[i].id]

\* a value arrived after the first buffer was handed over with one value: the
\* second, live buffer has it, the first has not
RemovalPrecedesEmissionWitness ==
  /\ Len(buffer) = 2
  /\ out = <<Note("next", 1, buffer[1], "", 1)>>
  /\ Len(buffer[1]) = 1
  /\ openedAt = <<0, 1>>
  /\ buffers = <<2>>
  /\ Len(arrived) = 2
  /\ buffer[2] = <<arrived[2]>>
  /\ ~subscriber

\* C17: when the consumer has got the completion, the array of buffers is
\* empty and every buffer ever opened was handed to it before the completion.
NoBufferLost ==
  \A k \in DOMAIN out :
    out[k].type = "complete" =>
      /\ buffers = <<>>
      /\ \A b \in DOMAIN buffer :
           \E i \in NextsIn(out) : i < k /\ out[i].id = b

\* the run completed; the second buffer had been flushed by its closing
\* notifier, the first, with values in it, by the completion
NoBufferLostWitness ==
  /\ Len(buffer) = 2
  /\ Len(out) = 3
  /\ Last(out).type = "complete"
  /\ out[1].id = 2
  /\ out[2].id = 1
  /\ out[2].vals # <<>>
  /\ closingSubscription = <<FALSE, TRUE>>

OpenClosing == {b \in DOMAIN buffer : ~closingSubscriber[b]}

\* C18: between steps, while the downstream subscriber is open the buffers of
\* the array, each there once, are exactly the buffers whose closing notifier
\* is still subscribed; once it is closed (completion, error or unsubscribe)
\* no closing notifier is subscribed, nor the openings notifier, nor the main
\* source.
NoLeakedClosingSubscription ==
  /\ ~subscriber =>
       /\ OpenClosing = Range(buffers)
       /\ Cardinality(Range(buffers)) = Len(buffers)
  /\ subscriber => AllClosed(Cur)

\* the operator is active, one buffer was flushed by the completion of its
\* closing notifier and has no subscription left, the other is live with its own
NoLeakedClosingSubscriptionWitness ==
  /\ ~subscriber
  /\ Len(buffer) = 2
  /\ buffers = <<1>>
  /\ OpenClosing = {1}
  /\ Emitted = {2}
  /\ openedAt[2] < Len(arrived)
====
